---------------------------- MODULE Spec2Model ----------------------------
(***************************************************************************)
(* Model of extra_run_perf_eval.py: process_files (the log scanner and the *)
(* table assembler), main (the reporter) and the relative-change column    *)
(* of generate_objective_function_plots.                                   *)
(*                                                                         *)
(* Text is a sequence of atoms.  An atom is one separator character (".",  *)
(* "/", ":", " ", a tab), one digit, or one word: a run of letters such as *)
(* "instA" or one of the three marker phrases.  A word holds no colon, no  *)
(* slash, no digit, and neither starts nor ends with a blank; the blanks   *)
(* inside a marker phrase never decide a result, since a text that holds a *)
(* word is no numeral with or without them.  The string functions of the   *)
(* script (strip, startswith, in, split, float) are operators on such      *)
(* sequences, computed as Python computes them.                            *)
(*                                                                         *)
(* The input directory is of one of three classes (profile): "wide", one   *)
(* file of at most MaxLinesWide lines, each any line of WideLines; "long", *)
(* one file that is a prefix of a file of two cycles (LongFiles); "many",  *)
(* at most MaxFiles files, each a prefix of a file of ManyFiles, under any *)
(* of four stems.  fileLines, fileStart and emitAt record the scan of the  *)
(* current file: the lines read, the number of records collected when it   *)
(* was opened, and the positions of the lines that appended a record.      *)
(***************************************************************************)
EXTENDS Integers, Sequences, FiniteSets, TLC

VARIABLES pc, profile, nfiles, stem, timestamp,
          instance_name, is_feasible, objective_value, execution_time,
          data, error, columns, table, relative_change,
          csv, plot, artifacts,
          fileLines, fileStart, emitAt

vars == <<pc, profile, nfiles, stem, timestamp,
          instance_name, is_feasible, objective_value, execution_time,
          data, error, columns, table, relative_change,
          csv, plot, artifacts,
          fileLines, fileStart, emitAt>>

---------------------------------------------------------------------------
(* Bounds of the enumeration. *)
MaxLinesWide == 4
MaxFiles == 2

---------------------------------------------------------------------------
(* Python values.  None and False are kept apart from every text a line    *)
(* can yield: no line holds the atoms "<None>" or "<False>".               *)
None == <<"<None>">>
False == <<"<False>">>

TAB == "\t"
FeasMarker == <<"Is solution feasible", ":">>
ObjMarker == <<"Objective function value", ":">>
ExecMarker == <<"Execution time", ":">>

IsSpace(c) == c \in {" ", TAB}
IsDigit(c) == c \in {"0", "1", "2", "3", "4", "5", "6", "7", "8", "9"}

DigitValue(c) ==
  CASE c = "0" -> 0 [] c = "1" -> 1 [] c = "2" -> 2 [] c = "3" -> 3
    [] c = "4" -> 4 [] c = "5" -> 5 [] c = "6" -> 6 [] c = "7" -> 7
    [] c = "8" -> 8 [] c = "9" -> 9

RECURSIVE lstrip(_)
lstrip(s) == IF s # <<>> /\ IsSpace(Head(s)) THEN lstrip(Tail(s)) ELSE s

RECURSIVE rstrip(_)
rstrip(s) ==
  IF s # <<>> /\ IsSpace(s[Len(s)]) THEN rstrip(SubSeq(s, 1, Len(s) - 1)) ELSE s

(* str.strip() *)
strip(s) == rstrip(lstrip(s))

(* str.startswith(p) *)
startswith(s, p) == Len(s) >= Len(p) /\ SubSeq(s, 1, Len(p)) = p

(* p in s *)
contains(s, p) ==
  \E i \in 1..(Len(s) - Len(p) + 1) : SubSeq(s, i, i + Len(p) - 1) = p

(* str.split(sep) for a one-character separator: never empty, keeps empty  *)
(* fields.                                                                 *)
RECURSIVE split(_, _)
split(s, sep) ==
  IF \A i \in 1..Len(s) : s[i] # sep
  THEN <<s>>
  ELSE LET i == CHOOSE k \in 1..Len(s) :
                  s[k] = sep /\ \A j \in 1..(k - 1) : s[j] # sep
       IN <<SubSeq(s, 1, i - 1)>> \o split(SubSeq(s, i + 1, Len(s)), sep)

RECURSIVE Decimal(_)
Decimal(s) ==
  IF s = <<>> THEN 0
  ELSE 10 * Decimal(SubSeq(s, 1, Len(s) - 1)) + DigitValue(s[Len(s)])

(* A float that reads a text that is no numeral as 0. *)
floatLenient(text) ==
  LET t == strip(text)
  IN IF t # <<>> /\ \A i \in 1..Len(t) : IsDigit(t[i])
     THEN [ok |-> TRUE, val |-> Decimal(t)]
     ELSE [ok |-> TRUE, val |-> 0]

(* float(text): surrounding whitespace is ignored; the numerals of the     *)
(* model are the unsigned digit strings.  ok = FALSE is ValueError.        *)
float(text) ==
  LET t == strip(text)
  IN IF t # <<>> /\ \A i \in 1..Len(t) : IsDigit(t[i])
     THEN [ok |-> TRUE, val |-> Decimal(t)]
     ELSE [ok |-> FALSE, val |-> 0]

(* instance_name is not None *)
TruthyNotNone(name) == name # None

(* bool(instance_name), line 66 *)
Truthy(name) == name # None /\ name # <<>>

---------------------------------------------------------------------------
(* The working fields of one file scan, lines 46-49. *)
Defaults ==
  [instance_name |-> None, is_feasible |-> False,
   objective_value |-> 0, execution_time |-> 0]

(* The fields of the file before kept. *)
FileStartFieldsCarry(w) == w

(* The fields at the start of a file, given the fields w left by the file  *)
(* before it, lines 46-49.                                                 *)
FileStartFields(w) == Defaults

(* A reset that leaves is_feasible as it is. *)
AfterEmitKeepFeasible(w) == [Defaults EXCEPT !.is_feasible = w.is_feasible]

(* The fields after an emission, lines 76-79. *)
AfterEmit(w) == Defaults

(* line.split("/")[1] *)
InstanceOfFirst(line) == split(line, "/")[2]

(* line.split("/")[-1] *)
InstanceOf(line) == LET p == split(line, "/") IN p[Len(p)]

(* line.split(":")[1].strip() *)
FieldOf(line) == strip(split(line, ":")[2])

(* line.split(":")[1].strip() *)
ExecTokenWhole(line) == FieldOf(line)

(* line.split(":")[1].strip().split(" ")[0] *)
ExecToken(line) == split(FieldOf(line), " ")[1]

(* The branch of the if/elif chain a stripped line takes, lines 54-63. *)
Branch(line) ==
  IF startswith(line, <<".", "/">>) THEN "instance"
  ELSE IF contains(line, FeasMarker) THEN "feasible"
  ELSE IF contains(line, ObjMarker) THEN "objective"
  ELSE IF contains(line, ExecMarker) THEN "execution"
  ELSE "other"

---------------------------------------------------------------------------
(* Lines of the log files. *)
LInstance == <<".", "/", "a", "/", "b">>
LInstanceA == <<".", "/", "instA">>
LInstanceB == <<".", "/", "instB">>
LInstanceEmpty == <<".", "/">>
LInstanceExec == <<".", "/", "Execution time", ":", " ", "2">>
LFeasible == <<"Is solution feasible", ":", " ", "a">>
LFeasibleExec ==
  <<"Is solution feasible", ":", " ", "Execution time", ":", " ", "2">>
LObjective == <<"Objective function value", ":", " ", "1", "5">>
LObjective100 == <<"Objective function value", ":", " ", "1", "0", "0">>
LObjective150 == <<"Objective function value", ":", " ", "1", "5", "0">>
LObjectiveBad == <<"Objective function value", ":", " ", "a">>
LExec == <<"Execution time", ":", " ", "2", " ", "s">>
LExec1 == <<"Execution time", ":", " ", "1">>
LFeasibleNo == <<"Is solution feasible", ":", " ", "no">>
LExecPrefixed == <<" ", "a", " ", "Execution time", ":", " ", "3", " ", "s">>
LExecTab == <<"Execution time", ":", TAB, "2", TAB, "s">>
LExecLabel == <<"a", ":", " ", "Execution time", ":", " ", "2">>
LOther == <<"a">>

WideLines ==
  {LInstance, LInstanceEmpty, LInstanceExec, LFeasible, LFeasibleExec,
   LObjective, LObjectiveBad, LExecPrefixed, LExecTab, LExecLabel, LOther}

(* A cycle: its instance line i among its feasibility line f and its       *)
(* objective line o, either of which may be missing, in any order, then    *)
(* its execution-time line e.                                              *)
Insert(s, k, x) == SubSeq(s, 1, k) \o <<x>> \o SubSeq(s, k + 1, Len(s))

Cycles(i, f, o, e) ==
  UNION {{Insert(b, k, i) \o <<e>> : k \in 0..Len(b)} :
           b \in {<<>>, <<f>>, <<o>>, <<f, o>>, <<o, f>>}}

(* Files of two cycles, the first one with all four lines. *)
LongFiles ==
  {c \o d :
     c \in {x \in UNION {Cycles(i, LFeasible, LObjective, LExec) :
                           i \in {LInstanceA, LInstanceEmpty}} : Len(x) = 4},
     d \in UNION {Cycles(i, LFeasibleNo, LObjective150, LExec1) :
                    i \in {LInstanceB, LInstanceEmpty}}}

ManyFiles ==
  {<<LInstanceA, LObjective100, LExec1>>,
   <<LInstanceA, LObjective150, LExec1>>,
   <<LInstanceB, LObjective100, LExec1>>,
   <<LInstanceA, LObjective100, LExec1, LInstanceB, LExec1>>,
   <<LExec1>>,
   <<LObjectiveBad>>}

AllLines ==
  WideLines \cup {LInstanceA, LInstanceB, LObjective100, LObjective150,
                  LExec, LExec1, LFeasibleNo}

IsPrefix(s, t) == Len(s) <= Len(t) /\ SubSeq(t, 1, Len(s)) = s

(* Whether the file being read may hold raw as its next line. *)
MayRead(raw) ==
  CASE profile = "wide" -> raw \in WideLines /\ Len(fileLines) < MaxLinesWide
    [] profile = "long" ->
         \E f \in LongFiles : IsPrefix(Append(fileLines, raw), f)
    [] profile = "many" ->
         \E f \in ManyFiles : IsPrefix(Append(fileLines, raw), f)

---------------------------------------------------------------------------
(* File name stems.  A stem is a sequence of parts: a word, or a group of  *)
(* digits of the shape dddd-dd-dd_dd-dd-dd, held as its six numbers.       *)
Word(s) == [txt |-> s, digits |-> <<>>]
Stamp(Y, M, D, h, m, s) == [txt |-> "", digits |-> <<Y, M, D, h, m, s>>]

StemJan == <<Word("instA_"), Stamp(2024, 1, 1, 0, 0, 0)>>
StemFeb == <<Word("instA_"), Stamp(2024, 2, 1, 0, 0, 0), Stamp(2023, 1, 1, 0, 0, 0)>>
StemPlain == <<Word("notes")>>
StemBadMonth == <<Word("run_"), Stamp(2024, 13, 1, 0, 0, 0)>>

Stems ==
  IF profile = "many" THEN {StemJan, StemFeb, StemPlain, StemBadMonth}
  ELSE {StemJan}

MaxFilesOf == IF profile = "many" THEN MaxFiles ELSE 1

(* The placeholder "Unknown": a text that holds no date fields. *)
Unknown == <<"Unknown">>

(* timestamp_pattern.search(filename.stem), line 40-41 *)
TimestampOf(st) ==
  LET hits == {i \in 1..Len(st) : st[i].digits # <<>>}
  IN IF hits = {} THEN Unknown
     ELSE st[CHOOSE i \in hits : \A j \in hits : i <= j].digits

NaT == <<"NaT">>

DaysIn(Y, M) ==
  IF M \in {4, 6, 9, 11} THEN 30
  ELSE IF M = 2 THEN (IF Y % 4 = 0 /\ (Y % 100 # 0 \/ Y % 400 = 0) THEN 29 ELSE 28)
  ELSE 31

(* pd.to_datetime(text, format="%Y-%m-%d_%H-%M-%S", errors="coerce"): the  *)
(* instant, held as its calendar fields from the year down to the second,  *)
(* and NaT when the text is no valid date.                                 *)
to_datetime(t) ==
  IF Len(t) = 6
     /\ t[2] \in 1..12 /\ t[3] \in 1..DaysIn(t[1], t[2])
     /\ t[4] \in 0..23 /\ t[5] \in 0..59 /\ t[6] \in 0..59
  THEN t
  ELSE NaT

(* a <= b on instants: the order of the calendar fields, the year first. *)
RECURSIVE NotAfter(_, _)
NotAfter(a, b) ==
  IF a = <<>> THEN TRUE
  ELSE IF Head(a) # Head(b) THEN Head(a) < Head(b)
  ELSE NotAfter(Tail(a), Tail(b))

---------------------------------------------------------------------------
(* One iteration of the loop over the lines of a file, lines 51-79, on the *)
(* working fields w.  out holds the fields of the record appended, if any; *)
(* raised is the ValueError of float.                                      *)
process_line(w, raw) ==
  LET line == strip(raw)
      b == Branch(line)
      same == [w |-> w, out |-> <<>>, raised |-> FALSE]
      fail == [w |-> w, out |-> <<>>, raised |-> TRUE]
  IN CASE b = "instance" ->
            [same EXCEPT !.w = [w EXCEPT !.instance_name = InstanceOf(line)]]
       [] b = "feasible" ->
            [same EXCEPT !.w = [w EXCEPT !.is_feasible = FieldOf(line)]]
       [] b = "objective" ->
            LET r == float(FieldOf(line))
            IN IF r.ok
               THEN [same EXCEPT !.w = [w EXCEPT !.objective_value = r.val]]
               ELSE fail
       [] b = "execution" ->
            LET r == float(ExecToken(line))
                w1 == [w EXCEPT !.execution_time = r.val]
            IN IF ~r.ok THEN fail
               ELSE IF Truthy(w1.instance_name)
               THEN [w |-> AfterEmit(w1), out |-> <<w1>>, raised |-> FALSE]
               ELSE [same EXCEPT !.w = w1]
       [] OTHER -> same

(* The dict appended at lines 67-74. *)
Record(w, st, ts) ==
  [Instance |-> w.instance_name, File |-> st, Timestamp |-> ts,
   IsSolutionFeasible |-> w.is_feasible,
   ObjectiveFunctionValue |-> w.objective_value,
   ExecutionTime |-> w.execution_time]

RecordKeys ==
  <<"Instance", "File", "Timestamp", "Is Solution Feasible",
    "Objective Function Value", "Execution Time">>

Fields ==
  [instance_name |-> instance_name, is_feasible |-> is_feasible,
   objective_value |-> objective_value, execution_time |-> execution_time]

SetFields(w) ==
  /\ instance_name' = w.instance_name
  /\ is_feasible' = w.is_feasible
  /\ objective_value' = w.objective_value
  /\ execution_time' = w.execution_time

---------------------------------------------------------------------------
(* Table assembly. *)
RECURSIVE Ascending(_)
Ascending(S) ==
  IF S = {} THEN <<>>
  ELSE LET m == CHOOSE x \in S : \A y \in S : x <= y
       IN <<m>> \o Ascending(S \ {m})

(* The orders of the positions S in which keys ascends. *)
AscendingOrders(keys, S) ==
  {p \in [1..Cardinality(S) -> S] :
     /\ \A a, b \in 1..Cardinality(S) : a # b => p[a] # p[b]
     /\ \A a, b \in 1..Cardinality(S) :
          a < b => NotAfter(keys[p[a]], keys[p[b]])}

(* nargsort with na_position="first". *)
nargsortNaFirst(keys) ==
  LET nan == {i \in 1..Len(keys) : keys[i] = NaT}
  IN {Ascending(nan) \o q : q \in AscendingOrders(keys, (1..Len(keys)) \ nan)}

(* nargsort without the rows that hold no timestamp. *)
nargsortDropNa(keys) ==
  LET nan == {i \in 1..Len(keys) : keys[i] = NaT}
  IN AscendingOrders(keys, (1..Len(keys)) \ nan)

(* The indexers nargsort may return for sort_values(by="Timestamp") with   *)
(* its defaults kind="quicksort", na_position="last": the rows that hold a *)
(* timestamp in ascending order, equal timestamps in any order (quicksort  *)
(* is not a stable sort), then the rows without one in their own order.    *)
nargsort(keys) ==
  LET nan == {i \in 1..Len(keys) : keys[i] = NaT}
  IN {q \o Ascending(nan) : q \in AscendingOrders(keys, (1..Len(keys)) \ nan)}

(* Line 82: the Timestamp column parsed. *)
ParseTimestamps(rows) ==
  [i \in 1..Len(rows) |-> [rows[i] EXCEPT !.Timestamp = to_datetime(@)]]

Take(rows, idx) == [i \in 1..Len(idx) |-> rows[idx[i]]]

---------------------------------------------------------------------------
(* Floating-point values of the Relative Change column, as fractions in    *)
(* lowest terms <<n, d>> with d > 0; <<1, 0>> and <<-1, 0>> are the        *)
(* infinities and <<0, 0>> is NaN, the null of the column.                 *)
NaN == <<0, 0>>

Abs(x) == IF x < 0 THEN -x ELSE x
Sign(x) == IF x < 0 THEN -1 ELSE IF x > 0 THEN 1 ELSE 0

RECURSIVE GCD(_, _)
GCD(a, b) == IF b = 0 THEN a ELSE GCD(b, a % b)

(* a / b in IEEE arithmetic on whole numbers a and b. *)
FDiv(a, b) ==
  IF b = 0 THEN <<Sign(a), 0>>
  ELSE LET g == GCD(Abs(a), Abs(b))
       IN <<(Sign(b) * a) \div g, Abs(b) \div g>>

(* x - 1 *)
MinusOne(x) == IF x[2] = 0 THEN x ELSE FDiv(x[1] - x[2], x[2])

(* Series.pct_change(): values / values.shift(1) - 1 *)
pct_change(values) ==
  [i \in 1..Len(values) |->
     IF i = 1 THEN NaN ELSE MinusOne(FDiv(values[i], values[i - 1]))]

(* pct_change over the whole column, without the groupby. *)
GroupedPctChangeUngrouped(rows) ==
  pct_change([i \in 1..Len(rows) |-> rows[i].ObjectiveFunctionValue])

(* Line 151: groupby("Instance")["Objective Function Value"].pct_change(), *)
(* each group the rows of one instance in table order, the results put     *)
(* back at the rows they come from.                                        *)
GroupedPctChange(rows) ==
  [i \in 1..Len(rows) |->
     LET g == Ascending({j \in 1..Len(rows) : rows[j].Instance = rows[i].Instance})
         pos == CHOOSE k \in 1..Len(g) : g[k] = i
     IN pct_change([k \in 1..Len(g) |-> rows[g[k]].ObjectiveFunctionValue])[pos]]

ObjectivePlots ==
  {"objective_evolution.png", "objective_distribution.png",
   "relative_change.png", "execution_vs_objective.png"}

---------------------------------------------------------------------------
(* The run: main calls process_files, writes results.csv and, with --plot, *)
(* the charts.                                                             *)
Profiles == {"wide", "long", "many"}

Init ==
  /\ pc = "scan"
  /\ profile \in Profiles
  /\ nfiles = 0
  /\ stem = <<>>
  /\ timestamp = Unknown
  /\ instance_name = None
  /\ is_feasible = False
  /\ objective_value = 0
  /\ execution_time = 0
  /\ data = <<>>
  /\ error = "none"
  /\ columns = <<>>
  /\ table = <<>>
  /\ relative_change = <<>>
  /\ csv = <<>>
  /\ plot = FALSE
  /\ artifacts = {}
  /\ fileLines = <<>>
  /\ fileStart = 0
  /\ emitAt = <<>>

(* Lines 38-49: the next file of the directory walk is opened. *)
OpenFile(st) ==
  /\ pc = "scan"
  /\ nfiles < MaxFilesOf
  /\ st \in Stems
  /\ pc' = "file"
  /\ nfiles' = nfiles + 1
  /\ stem' = st
  /\ timestamp' = TimestampOf(st)
  /\ SetFields(FileStartFields(Fields))
  /\ fileLines' = <<>>
  /\ fileStart' = Len(data)
  /\ emitAt' = <<>>
  /\ UNCHANGED <<profile, data, error, columns, table, relative_change,
                 csv, plot, artifacts>>

(* Lines 51-79: one line of the open file. *)
ReadLine(raw) ==
  /\ pc = "file"
  /\ MayRead(raw)
  /\ LET r == process_line(Fields, raw)
     IN /\ fileLines' = Append(fileLines, raw)
        /\ SetFields(r.w)
        /\ data' = data \o [i \in 1..Len(r.out) |-> Record(r.out[i], stem, timestamp)]
        /\ emitAt' = IF r.out # <<>> THEN Append(emitAt, Len(fileLines) + 1)
                     ELSE emitAt
        /\ pc' = IF r.raised THEN "failed" ELSE "file"
        /\ error' = IF r.raised THEN "ValueError" ELSE error
  /\ UNCHANGED <<profile, nfiles, stem, timestamp, columns, table,
                 relative_change, csv, plot, artifacts, fileStart>>

(* The end of the file's lines. *)
CloseFile ==
  /\ pc = "file"
  /\ pc' = "scan"
  /\ UNCHANGED <<profile, nfiles, stem, timestamp, instance_name, is_feasible,
                 objective_value, execution_time, data, error, columns, table,
                 relative_change, csv, plot, artifacts, fileLines, fileStart,
                 emitAt>>

(* Lines 81-85, once the walk has no more files: pd.DataFrame(data) has    *)
(* the keys of the records as its columns, and none when data is empty, so *)
(* df["Timestamp"] raises KeyError then.                                   *)
Assemble ==
  /\ pc = "scan"
  /\ LET cols == IF data = <<>> THEN <<>> ELSE RecordKeys
         rows == ParseTimestamps(data)
     IN /\ columns' = cols
        /\ IF \E i \in 1..Len(cols) : cols[i] = "Timestamp"
           THEN /\ \E idx \in nargsort([i \in 1..Len(rows) |-> rows[i].Timestamp]) :
                     table' = Take(rows, idx)
                /\ pc' = "report"
                /\ error' = error
           ELSE /\ table' = table
                /\ pc' = "failed"
                /\ error' = "KeyError"
  /\ UNCHANGED <<profile, nfiles, stem, timestamp, instance_name, is_feasible,
                 objective_value, execution_time, data, relative_change, csv,
                 plot, artifacts, fileLines, fileStart, emitAt>>

(* Lines 260-263: results.csv, then the test of args.plot. *)
WriteCsv(p) ==
  /\ pc = "report"
  /\ csv' = <<[header |-> columns, rows |-> table]>>
  /\ plot' = p
  /\ pc' = IF p THEN "plots" ELSE "done"
  /\ UNCHANGED <<profile, nfiles, stem, timestamp, instance_name, is_feasible,
                 objective_value, execution_time, data, error, columns, table,
                 relative_change, artifacts, fileLines, fileStart, emitAt>>

(* Line 264: generate_objective_function_plots. *)
generate_objective_function_plots ==
  /\ pc = "plots"
  /\ relative_change' = GroupedPctChange(table)
  /\ columns' = Append(columns, "Relative Change")
  /\ artifacts' = artifacts \cup ObjectivePlots
  /\ pc' = "variation"
  /\ UNCHANGED <<profile, nfiles, stem, timestamp, instance_name, is_feasible,
                 objective_value, execution_time, data, error, table, csv,
                 plot, fileLines, fileStart, emitAt>>

(* Line 265: generate_execution_time_variation_plot. *)
generate_execution_time_variation_plot ==
  /\ pc = "variation"
  /\ artifacts' = artifacts \cup {"execution_time_variation.png"}
  /\ pc' = "done"
  /\ UNCHANGED <<profile, nfiles, stem, timestamp, instance_name, is_feasible,
                 objective_value, execution_time, data, error, columns, table,
                 relative_change, csv, plot, fileLines, fileStart, emitAt>>

Next ==
  \/ \E st \in {StemJan, StemFeb, StemPlain, StemBadMonth} : OpenFile(st)
  \/ \E raw \in AllLines : ReadLine(raw)
  \/ CloseFile
  \/ Assemble
  \/ \E p \in BOOLEAN : WriteCsv(p)
  \/ generate_objective_function_plots
  \/ generate_execution_time_variation_plot

Spec == Init /\ [][Next]_vars

---------------------------------------------------------------------------
(* Vocabulary of the properties, stated on the lines read so far from the  *)
(* file being scanned (fileLines), the positions of the lines at which a   *)
(* record was appended (emitAt) and the records of this file.              *)
Last(s) == s[Len(s)]

FileRecords == SubSeq(data, fileStart + 1, Len(data))

LastEmit == IF emitAt = <<>> THEN 0 ELSE Last(emitAt)

LineRead == Len(fileLines') = Len(fileLines) + 1

Emitted == Len(data') > Len(data)

Shape(raw) == Branch(strip(raw))

BeginsDotSlash(raw) ==
  LET t == strip(raw) IN Len(t) >= 2 /\ t[1] = "." /\ t[2] = "/"

(* The segment after the last "/" of a line. *)
LastSegment(raw) ==
  LET t == strip(raw)
      k == CHOOSE i \in 1..Len(t) :
             t[i] = "/" /\ \A j \in (i + 1)..Len(t) : t[j] # "/"
  IN SubSeq(t, k + 1, Len(t))

Colons(raw) == {i \in 1..Len(raw) : raw[i] = ":"}

(* The untrimmed text after the first occurrence of the marker m, to the   *)
(* end of the line.                                                        *)
AfterMarker(raw, m) ==
  LET k == CHOOSE i \in 1..(Len(raw) - 1) :
             /\ SubSeq(raw, i, i + 1) = m
             /\ \A j \in 1..(i - 1) : SubSeq(raw, j, j + 1) # m
  IN SubSeq(raw, k + 2, Len(raw))

(* The untrimmed text between the first colon of a line and its second     *)
(* colon, or the end of the line.                                          *)
BetweenColons(raw) ==
  LET c == Colons(raw)
      a == CHOOSE i \in c : \A j \in c : i <= j
      rest == {i \in c : i > a}
      b == IF rest = {} THEN Len(raw) + 1
           ELSE CHOOSE i \in rest : \A j \in rest : i <= j
  IN SubSeq(raw, a + 1, b - 1)

(* The first token of a text, the tokens delimited by the atoms of seps. *)
FirstToken(text, seps) ==
  LET t == strip(text)
      cut == {i \in 1..Len(t) : t[i] \in seps}
  IN IF cut = {} THEN t
     ELSE SubSeq(t, 1, (CHOOSE i \in cut : \A j \in cut : i <= j) - 1)

IsNumeral(text) ==
  LET t == strip(text) IN t # <<>> /\ \A i \in 1..Len(t) : IsDigit(t[i])

RECURSIVE NumberOf(_)
NumberOf(t) ==
  IF t = <<>> THEN 0
  ELSE LET d == CHOOSE n \in 0..9 : DigitValue(Last(t)) = n
       IN d + 10 * NumberOf(SubSeq(t, 1, Len(t) - 1))

(* The instance lines read since the later of the start of the file and    *)
(* the last emission in it.                                                *)
InstanceLinesSinceReset ==
  {i \in (LastEmit + 1)..Len(fileLines) : BeginsDotSlash(fileLines[i])}

(* The last of them names an instance: its final segment is not empty. *)
InstanceNamedSinceReset ==
  /\ InstanceLinesSinceReset # {}
  /\ LET k == CHOOSE i \in InstanceLinesSinceReset :
                \A j \in InstanceLinesSinceReset : j <= i
     IN LastSegment(fileLines[k]) # <<>>

---------------------------------------------------------------------------
(* C1: a record is appended only by a step that reads a line recognised as *)
(* an execution-time line, one record at a time, and only if an instance   *)
(* line was read earlier in the same file since the later of the file's    *)
(* start and the previous emission in it; right after each emission, and   *)
(* at the start of every file, the four working fields hold their defaults *)
(* (None, False, 0, 0).                                                    *)
C1_EmissionDiscipline ==
  [][/\ Emitted =>
          /\ pc = "file" /\ LineRead
          /\ Shape(Last(fileLines')) = "execution"
          /\ Len(data') = Len(data) + 1
          /\ InstanceLinesSinceReset # {}
          /\ Fields' = Defaults
     /\ (pc = "scan" /\ pc' = "file") => Fields' = Defaults]_vars

(* A second file has emitted a record, and the fields are back at their    *)
(* defaults.                                                               *)
C1_Witness ==
  /\ pc = "file" /\ nfiles = 2
  /\ emitAt # <<>> /\ LastEmit = Len(fileLines)
  /\ fileStart >= 1
  /\ Fields = Defaults

---------------------------------------------------------------------------
(* C2, as stated: every line that contains "Execution time:", whatever     *)
(* else it contains or begins with, sets the execution time from the first *)
(* whitespace-delimited token after the colon and, an instance line having *)
(* been read since the last reset, appends a record with it and resets the *)
(* four fields.                                                            *)
C2_AnyLineContainingMarker ==
  [][(/\ pc = "file" /\ LineRead
      /\ contains(Last(fileLines'), ExecMarker)
      /\ IsNumeral(FirstToken(AfterMarker(Last(fileLines'), ExecMarker), {" ", TAB}))
      /\ InstanceLinesSinceReset # {})
     => /\ Len(data') = Len(data) + 1
        /\ Last(data').ExecutionTime =
             NumberOf(FirstToken(AfterMarker(Last(fileLines'), ExecMarker), {" ", TAB}))
        /\ Fields' = Defaults]_vars

(* C2, amended: a line is handled as an execution-time line exactly when,  *)
(* trimmed, it does not begin with "./", contains neither of the markers   *)
(* "Is solution feasible:" and "Objective function value:", and contains   *)
(* "Execution time:" anywhere.  Such a line takes its number from the      *)
(* first space-delimited token of the trimmed text between the line's      *)
(* first and second colons; if that token is a numeral, the line appends a *)
(* record with it and resets the four fields when the last instance line   *)
(* read since the last reset has a non-empty final segment, and otherwise  *)
(* only overwrites the working execution time.  No other line appends a    *)
(* record.                                                                 *)
C2_ExecutionTimeLine ==
  [][(pc = "file" /\ LineRead) =>
       LET l == Last(fileLines')
           tok == FirstToken(BetweenColons(strip(l)), {" "})
       IN IF /\ ~BeginsDotSlash(l)
             /\ ~contains(l, FeasMarker) /\ ~contains(l, ObjMarker)
             /\ contains(l, ExecMarker)
             /\ IsNumeral(tok)
          THEN IF InstanceNamedSinceReset
               THEN /\ Len(data') = Len(data) + 1
                    /\ Last(data').ExecutionTime = NumberOf(strip(tok))
                    /\ Fields' = Defaults
               ELSE /\ data' = data
                    /\ execution_time' = NumberOf(strip(tok))
                    /\ pc' = "file"
          ELSE data' = data]_vars

(* A line that holds text before the marker and a unit after the number    *)
(* has appended a record with its number.                                  *)
C2_Witness ==
  /\ pc = "file"
  /\ fileLines # <<>> /\ Last(fileLines) = LExecPrefixed
  /\ LastEmit = Len(fileLines)
  /\ Last(data).ExecutionTime = 3
  /\ Fields = Defaults

---------------------------------------------------------------------------
(* Files of one cycle and of two. *)
Positions(lines, shape) == {i \in 1..Len(lines) : Shape(lines[i]) = shape}

The(S) == CHOOSE x \in S : TRUE

(* A line as the log writer prints it: an instance line whose final        *)
(* segment is not empty, or a line of another shape whose only colon is    *)
(* the one of its marker.                                                  *)
Plain(raw) ==
  IF Shape(raw) = "instance" THEN LastSegment(raw) # <<>>
  ELSE Cardinality(Colons(raw)) = 1

(* The number an objective line and an execution-time line carry, the      *)
(* tokens of the latter delimited by the atoms of seps.                    *)
ObjectiveText(raw) == AfterMarker(raw, ObjMarker)
ExecutionText(raw, seps) == FirstToken(AfterMarker(raw, ExecMarker), seps)

(* lines is one cycle: one instance line, at most one feasibility line and *)
(* at most one objective line in any order, then one execution-time line,  *)
(* the two numbers being numerals.                                         *)
IsCycle(lines, seps) ==
  /\ lines # <<>>
  /\ Positions(lines, "execution") = {Len(lines)}
  /\ Cardinality(Positions(lines, "instance")) = 1
  /\ Cardinality(Positions(lines, "feasible")) <= 1
  /\ Cardinality(Positions(lines, "objective")) <= 1
  /\ Positions(lines, "other") = {}
  /\ \A i \in Positions(lines, "objective") : IsNumeral(ObjectiveText(lines[i]))
  /\ IsNumeral(ExecutionText(Last(lines), seps))

(* The four fields of the record a cycle stands for. *)
CycleFields(lines, seps) ==
  [instance_name |-> LastSegment(lines[The(Positions(lines, "instance"))]),
   is_feasible |->
     IF Positions(lines, "feasible") = {} THEN False
     ELSE strip(AfterMarker(lines[The(Positions(lines, "feasible"))], FeasMarker)),
   objective_value |->
     IF Positions(lines, "objective") = {} THEN 0
     ELSE NumberOf(strip(ObjectiveText(lines[The(Positions(lines, "objective"))]))),
   execution_time |-> NumberOf(strip(ExecutionText(Last(lines), seps)))]

FieldsOfRecord(r) ==
  [instance_name |-> r.Instance, is_feasible |-> r.IsSolutionFeasible,
   objective_value |-> r.ObjectiveFunctionValue,
   execution_time |-> r.ExecutionTime]

Complete(lines) ==
  Positions(lines, "feasible") # {} /\ Positions(lines, "objective") # {}

---------------------------------------------------------------------------
(* C3, as stated: a file of one instance line, one feasibility line and    *)
(* one objective line in any order, then one execution-time line, yields   *)
(* exactly one record: the segment after the last "/" of the instance      *)
(* line, the trimmed text after the colon of the feasibility line, and the *)
(* numbers on the objective line and (its first whitespace-delimited       *)
(* token) on the execution-time line.                                      *)
C3_OneCycleOneRecord ==
  (/\ Len(fileLines) = 4
   /\ IsCycle(fileLines, {" ", TAB})
   /\ Complete(fileLines))
  => /\ Len(FileRecords) = 1
     /\ FieldsOfRecord(FileRecords[1]) = CycleFields(fileLines, {" ", TAB})

(* C3, amended: the same, provided the final segment of the instance line  *)
(* is not empty, the only colon of each of the three other lines is the    *)
(* one of its marker, and the number of the execution-time line is its     *)
(* first space-delimited token.                                            *)
C3_PlainCycleOneRecord ==
  (/\ Len(fileLines) = 4
   /\ IsCycle(fileLines, {" "})
   /\ Complete(fileLines)
   /\ \A i \in 1..4 : Plain(fileLines[i]))
  => /\ Len(FileRecords) = 1
     /\ pc # "failed"
     /\ FieldsOfRecord(FileRecords[1]) = CycleFields(fileLines, {" "})

(* The objective line read first and the instance line second: one record  *)
(* with the four values of the lines.                                      *)
C3_Witness ==
  /\ fileLines = <<LObjective, LInstance, LFeasible, LExecPrefixed>>
  /\ Len(FileRecords) = 1
  /\ FieldsOfRecord(FileRecords[1]) =
       [instance_name |-> <<"b">>, is_feasible |-> <<"a">>,
        objective_value |-> 15, execution_time |-> 3]

---------------------------------------------------------------------------
(* The file read so far as two cycles: the first ends at the first         *)
(* execution-time line.                                                    *)
FirstEnd ==
  LET e == Positions(fileLines, "execution")
  IN IF e = {} THEN 0 ELSE CHOOSE i \in e : \A j \in e : i <= j

FirstCycle == SubSeq(fileLines, 1, FirstEnd)
SecondCycle == SubSeq(fileLines, FirstEnd + 1, Len(fileLines))

---------------------------------------------------------------------------
(* The value the lines read since the last reset give a field: that of the *)
(* last line of the shape, taken from the text between the line's first    *)
(* and second colons, or the default when there is no such line.           *)
LinesSinceReset(lines, shape) ==
  {i \in (LastEmit + 1)..Len(lines) : Shape(lines[i]) = shape}

Latest(S) == CHOOSE i \in S : \A j \in S : j <= i

FeasibleSinceReset(lines) ==
  IF LinesSinceReset(lines, "feasible") = {} THEN False
  ELSE strip(BetweenColons(strip(lines[Latest(LinesSinceReset(lines, "feasible"))])))

ObjectiveSinceReset(lines) ==
  IF LinesSinceReset(lines, "objective") = {} THEN 0
  ELSE NumberOf(strip(BetweenColons(
         strip(lines[Latest(LinesSinceReset(lines, "objective"))]))))

NoInstanceName == instance_name = None \/ instance_name = <<>>

(* C10: an execution-time line read while no instance name is set appends  *)
(* no record and leaves the table, the instance name, the feasibility flag *)
(* and the objective value as they are; only the working execution time   *)
(* is overwritten.  Nothing being reset, the record next appended in the   *)
(* file carries the feasibility and objective values of the last such      *)
(* lines read since the last reset, those before the dropped line too.     *)
C10_DroppedLineFrame ==
  [][/\ (/\ pc = "file" /\ LineRead /\ pc' = "file"
         /\ Shape(Last(fileLines')) = "execution"
         /\ NoInstanceName)
        => /\ data' = data
           /\ instance_name' = instance_name
           /\ is_feasible' = is_feasible
           /\ objective_value' = objective_value
           /\ execution_time' =
                NumberOf(strip(FirstToken(BetweenColons(strip(Last(fileLines'))), {" "})))
     /\ Emitted =>
          /\ Last(data').IsSolutionFeasible = FeasibleSinceReset(fileLines)
          /\ Last(data').ObjectiveFunctionValue = ObjectiveSinceReset(fileLines)]_vars

(* An execution-time line was dropped after a feasibility line, and the    *)
(* record appended later in the file carries that line's value.            *)
C10_Witness ==
  /\ fileLines = <<LFeasible, LExecPrefixed, LInstance, LExecPrefixed>>
  /\ emitAt = <<4>>
  /\ Len(FileRecords) = 1
  /\ FileRecords[1].IsSolutionFeasible = <<"a">>

---------------------------------------------------------------------------
(* A line whose number does not parse: a line handled as an objective line *)
(* whose trimmed text between the first and second colons is no numeral,   *)
(* or one handled as an execution-time line whose first space-delimited    *)
(* token of that text is none.                                             *)
Malformed(raw) ==
  \/ /\ Shape(raw) = "objective"
     /\ ~IsNumeral(BetweenColons(strip(raw)))
  \/ /\ Shape(raw) = "execution"
     /\ ~IsNumeral(FirstToken(BetweenColons(strip(raw)), {" "}))

---------------------------------------------------------------------------
(* The table. *)
Assembled == pc \in {"report", "plots", "variation", "done"}

Collected == ParseTimestamps(data)

Count(rows, r) == Cardinality({i \in 1..Len(rows) : rows[i] = r})

IsPermutation(a, b) ==
  /\ Len(a) = Len(b)
  /\ \A i \in 1..Len(a) : Count(a, a[i]) = Count(b, a[i])

Orderings(n) ==
  {p \in [1..n -> 1..n] : \A a, b \in 1..n : a # b => p[a] # p[b]}

Missing(r) == r.Timestamp = NaT

(* rows in ascending order of timestamp, the rows without one last. *)
Chronological(rows) ==
  \A a, b \in 1..Len(rows) :
    a < b => /\ Missing(rows[a]) => Missing(rows[b])
             /\ (~Missing(rows[a]) /\ ~Missing(rows[b]))
                  => NotAfter(rows[a].Timestamp, rows[b].Timestamp)

(* C5, as stated: the table is the collected records in ascending order of *)
(* parsed timestamp, and records with equal parsed timestamps keep the     *)
(* order in which they were collected.                                     *)
C5_StableChronologicalTable ==
  Assembled =>
    \E p \in Orderings(Len(Collected)) :
      /\ table = Take(Collected, p)
      /\ Chronological(table)
      /\ \A a, b \in 1..Len(p) :
           (a < b /\ Collected[p[a]].Timestamp = Collected[p[b]].Timestamp)
             => p[a] < p[b]

(* C5, amended: the table is a permutation of the collected records in     *)
(* ascending order of parsed timestamp, the records whose timestamp is     *)
(* missing last; the order of records with equal timestamps is not fixed.  *)
C5_ChronologicalTable ==
  Assembled => IsPermutation(table, Collected) /\ Chronological(table)

(* The sort has moved the record collected last to the front, and the two  *)
(* records of one file, whose timestamps are equal, stand in the reverse   *)
(* of the order in which they were collected.                              *)
C5_Witness ==
  /\ pc = "report"
  /\ Len(table) = 3
  /\ table = <<Collected[3], Collected[2], Collected[1]>>
  /\ table[1].Timestamp # table[2].Timestamp
  /\ table[2].Timestamp = table[3].Timestamp
  /\ table[2] # table[3]
  /\ ~Missing(table[3])

---------------------------------------------------------------------------
(* C6: a run over a directory that holds no .txt file, or whose files      *)
(* yield no record, ends with a results.csv written that holds the six     *)
(* header columns and no data row.                                         *)
C6_EmptyRunWritesHeader ==
  (pc \in {"done", "failed"} /\ data = <<>> /\ error # "ValueError")
  => csv = <<[header |-> RecordKeys, rows |-> <<>>]>>

---------------------------------------------------------------------------
(* The row before row i among the rows of the same instance, 0 if none. *)
PreviousOfInstance(rows, i) ==
  LET e == {j \in 1..(i - 1) : rows[j].Instance = rows[i].Instance}
  IN IF e = {} THEN 0 ELSE CHOOSE j \in e : \A k \in e : k <= j

(* C8: after generate_objective_function_plots, the table being in         *)
(* ascending order of timestamp, Relative Change is null on each           *)
(* instance's first row and (curr - prev) / prev on every later one, prev  *)
(* the objective value of the same instance's preceding row.               *)
C8_RelativeChange ==
  pc \in {"variation", "done"} /\ plot =>
    /\ Chronological(table)
    /\ Len(relative_change) = Len(table)
    /\ \A i \in 1..Len(table) :
         LET j == PreviousOfInstance(table, i)
         IN relative_change[i] =
              IF j = 0 THEN NaN
              ELSE FDiv(table[i].ObjectiveFunctionValue
                          - table[j].ObjectiveFunctionValue,
                        table[j].ObjectiveFunctionValue)

(* The file of February (150) was scanned before the file of January       *)
(* (100), a record of another instance lies between them in the table: the *)
(* change on the February row is 1/2.                                      *)
C8_Witness ==
  /\ pc = "done" /\ plot
  /\ Len(table) = 3
  /\ data[1].Timestamp = <<2024, 2, 1, 0, 0, 0>>
  /\ table[1].ObjectiveFunctionValue = 100
  /\ table[3].ObjectiveFunctionValue = 150
  /\ table[1].Instance = table[3].Instance
  /\ table[2].Instance # table[1].Instance
  /\ relative_change = <<NaN, NaN, <<1, 2>>>>

---------------------------------------------------------------------------
NoStamp(st) == \A i \in 1..Len(st) : st[i].digits = <<>>

(* C9: every record of a file whose stem holds no text of the shape        *)
(* YYYY-MM-DD_HH-MM-SS has the Timestamp "Unknown"; the sort step does not *)
(* fail on such rows, and the table holds each of them as often as it was  *)
(* collected, its timestamp missing.                                       *)
C9_UnknownTimestampsKept ==
  /\ \A i \in 1..Len(data) :
       NoStamp(data[i].File) => data[i].Timestamp = Unknown
  /\ (\E i \in 1..Len(data) : NoStamp(data[i].File)) => error # "KeyError"
  /\ Assembled =>
       \A i \in 1..Len(data) :
         NoStamp(data[i].File) =>
           LET r == [data[i] EXCEPT !.Timestamp = NaT]
           IN Count(table, r) = Count(data, data[i])

(* The table holds a record of a file without a timestamp together with a  *)
(* record of a file that has one.                                          *)
C9_Witness ==
  /\ pc = "report"
  /\ \E i, j \in 1..Len(table) :
       /\ NoStamp(table[i].File) /\ Missing(table[i])
       /\ ~Missing(table[j])

=============================================================================
